---- MODULE Spec2Model ----
(***************************************************************************)
(* Alert lifecycle (Alert entity), threshold evaluation                   *)
(* (OxygenTankService.updateTankReadings), user accounts (User entity,     *)
(* AuthService) and the tank routes' middleware of the S.O.S. backend.     *)
(*                                                                         *)
(* The alert store is a sequence of alert records; an alert's id is its    *)
(* position.  Timestamps are natural numbers read from the clock `now`.    *)
(* A nullable column that is unset holds Null (strings), NoTime            *)
(* (timestamps) or the empty sequence (JSON history arrays).               *)
(***************************************************************************)
EXTENDS Integers, Sequences, FiniteSets, TLC

\* ------------------------------------------------------------------ bounds
MaxActions == 3        \* transitions applied to one alert (Lifecycle)
MaxNotifications == 1  \* notifications logged on one alert
MaxTime == 1           \* last clock value
MaxAlerts == 2         \* alerts the store may hold (Spec)
MaxOps == 1            \* transitions applied to stored alerts (Spec)

\* ------------------------------------------------------------------ values
Null == "null"
Undefined == "undefined"
NoTime == 0 - 1

\* AlertStatus
ACTIVE == "active"
ACKNOWLEDGED == "acknowledged"
RESOLVED == "resolved"
ESCALATED == "escalated"
DISMISSED == "dismissed"
AlertStatus == {ACTIVE, ACKNOWLEDGED, RESOLVED, ESCALATED, DISMISSED}

\* AlertType: the members OxygenTankService raises
TANK_LOW_LEVEL == "tank_low_level"
TANK_LOW_PRESSURE == "tank_low_pressure"
TANK_HIGH_PRESSURE == "tank_high_pressure"
ENVIRONMENTAL_HAZARD == "environmental_hazard"
AlertType == {TANK_LOW_LEVEL, TANK_LOW_PRESSURE, TANK_HIGH_PRESSURE, ENVIRONMENTAL_HAZARD}

\* inputs of the lifecycle operations
Users == {"u1", "u2"}
NoteArgs == {Undefined, "", "n1"}

\* `x || ''` : undefined, null and the empty string give ''
OrEmpty(x) == IF x \in {Undefined, Null, ""} THEN "" ELSE x
\* `x || null`
OrNull(x) == IF x \in {Undefined, Null, ""} THEN Null ELSE x
Truthy(x) == x \notin {Undefined, Null, ""}

\* ------------------------------------------------------------------ state
VARIABLES
    alerts,   \* the alert repository: Seq of Alert records, id = index
    now,      \* the clock read by `new Date()`
    tank,     \* the stored OxygenTank row
    calls,    \* per caller: the updateTankReadings call in flight
    result,   \* what the last finished call signalled
    streak,   \* per alert type: alerts created since the condition was last
              \* seen clear or an alert of that type was resolved or dismissed
    users,    \* the user repository: per e-mail address the row, or NoUser
    mail      \* the verification and reset e-mails sent so far

vars == <<alerts, now, tank, calls, result, streak, users, mail>>

\* ------------------------------------------------------------------ Alert entity
\* column default of escalationDelay: "5 minutes in seconds"
DefaultEscalationDelay == 300

\* A row as the repository creates it: the column defaults of the entity.
NewAlert(tankId, type, category, severity, sensorData, t) ==
    [ tankId |-> tankId, type |-> type, category |-> category,
      severity |-> severity, status |-> ACTIVE,
      sensorData |-> sensorData,
      acknowledgedBy |-> Null, acknowledgedAt |-> NoTime,
      resolvedBy |-> Null, resolvedAt |-> NoTime, resolutionNotes |-> Null,
      escalatedTo |-> Null, escalatedAt |-> NoTime, escalationReason |-> Null,
      escalationLevel |-> 0, acknowledgmentCount |-> 0, notificationCount |-> 0,
      notificationHistory |-> <<>>, escalationHistory |-> <<>>,
      actionHistory |-> <<>>,
      notes |-> <<>>,
      autoEscalate |-> FALSE, escalationDelay |-> DefaultEscalationDelay,
      createdAt |-> t ]

\* addActionHistory with the array replaced instead of pushed to
addActionHistoryReset(a, action, performedBy, details, t) ==
    [a EXCEPT !.actionHistory =
        << [action |-> action, performedBy |-> performedBy,
            performedAt |-> t, details |-> OrEmpty(details)] >>]

addActionHistory(a, action, performedBy, details, t) ==
    [a EXCEPT !.actionHistory =
        Append(@, [action |-> action, performedBy |-> performedBy,
                   performedAt |-> t, details |-> OrEmpty(details)])]

\* notes: the lines of the text column, joined by "\n" in the code
acknowledge(a, acknowledgedBy, notes, t) ==
    addActionHistory(
        [a EXCEPT !.status = ACKNOWLEDGED,
                  !.acknowledgedBy = acknowledgedBy,
                  !.acknowledgedAt = t,
                  !.acknowledgmentCount = @ + 1,
                  !.notes = IF Truthy(notes) THEN Append(@, notes) ELSE @],
        "acknowledged", acknowledgedBy, OrEmpty(notes), t)

\* resolve that stores the notes as passed
resolveNotesAsGiven(a, resolvedBy, resolutionNotes, t) ==
    addActionHistory(
        [a EXCEPT !.status = RESOLVED,
                  !.resolvedBy = resolvedBy,
                  !.resolvedAt = t,
                  !.resolutionNotes = resolutionNotes],
        "resolved", resolvedBy, OrEmpty(resolutionNotes), t)

resolve(a, resolvedBy, resolutionNotes, t) ==
    addActionHistory(
        [a EXCEPT !.status = RESOLVED,
                  !.resolvedBy = resolvedBy,
                  !.resolvedAt = t,
                  !.resolutionNotes = OrNull(resolutionNotes)],
        "resolved", resolvedBy, OrEmpty(resolutionNotes), t)

\* escalate that forgets the counter
escalateNoIncrement(a, escalatedTo, reason, t) ==
    addActionHistory(
        [a EXCEPT !.status = ESCALATED,
                  !.escalatedTo = escalatedTo,
                  !.escalatedAt = t,
                  !.escalationReason = reason,
                  !.escalationHistory =
                      Append(@, [level |-> a.escalationLevel,
                                 escalatedTo |-> escalatedTo,
                                 escalatedAt |-> t, reason |-> reason])],
        "escalated", escalatedTo, reason, t)

\* escalate that writes no escalation-history entry
escalateNoHistory(a, escalatedTo, reason, t) ==
    addActionHistory(
        [a EXCEPT !.status = ESCALATED,
                  !.escalatedTo = escalatedTo,
                  !.escalatedAt = t,
                  !.escalationReason = reason,
                  !.escalationLevel = @ + 1],
        "escalated", escalatedTo, reason, t)

escalate(a, escalatedTo, reason, t) ==
    addActionHistory(
        [a EXCEPT !.status = ESCALATED,
                  !.escalatedTo = escalatedTo,
                  !.escalatedAt = t,
                  !.escalationReason = reason,
                  !.escalationLevel = @ + 1,
                  !.escalationHistory =
                      Append(@, [level |-> a.escalationLevel + 1,
                                 escalatedTo |-> escalatedTo,
                                 escalatedAt |-> t, reason |-> reason])],
        "escalated", escalatedTo, reason, t)

\* dismiss that also stamps resolvedAt
dismissStamped(a, dismissedBy, reason, t) ==
    addActionHistory([a EXCEPT !.status = DISMISSED, !.resolvedAt = t],
                     "dismissed", dismissedBy, OrEmpty(reason), t)

dismiss(a, dismissedBy, reason, t) ==
    addActionHistory([a EXCEPT !.status = DISMISSED],
                     "dismissed", dismissedBy, OrEmpty(reason), t)

\* addNotification that counts a notification it does not log
addNotificationNoEntry(a, method, recipient, status, error, t) ==
    [a EXCEPT !.notificationCount = @ + 1]

\* addNotification that forgets the counter
addNotificationNoCount(a, method, recipient, status, error, t) ==
    [a EXCEPT !.notificationHistory =
                  Append(@, [method |-> method, recipient |-> recipient,
                             sentAt |-> t, status |-> status, error |-> error])]

addNotification(a, method, recipient, status, error, t) ==
    [a EXCEPT !.notificationHistory =
                  Append(@, [method |-> method, recipient |-> recipient,
                             sentAt |-> t, status |-> status, error |-> error]),
              !.notificationCount = @ + 1]

\* getDuration(): whole minutes since createdAt, the clock counting seconds:
\* Math.floor((now - created) / (1000 * 60)) on millisecond timestamps
getDuration(a, t) == (t - a.createdAt) \div 60

\* shouldEscalate(): the duration in minutes against escalationDelay
\* shouldEscalate that does not look at the status
shouldEscalateAnyStatus(a, t) ==
    IF ~a.autoEscalate
    THEN FALSE
    ELSE getDuration(a, t) >= a.escalationDelay

shouldEscalate(a, t) ==
    IF ~a.autoEscalate \/ a.status # ACTIVE
    THEN FALSE
    ELSE getDuration(a, t) >= a.escalationDelay

\* ------------------------------------------------------------------ OxygenTank entity
\* config.emergency.alertThreshold = 0.15, as the fraction Num / Den
AlertThresholdNum == 15
AlertThresholdDen == 100
MinTemp == -20
MaxTempC == 50
DefaultMaxPressure == 2200
DefaultMinPressure == 100
DefaultRefillThreshold == 20

NoTemp == 0 - 1000
TankId == "tank1"
Capacities == {100, 0}

\* the readings the sensors send: level, pressure, optional temperature
Readings ==
    { [currentLevel |-> 0,  currentPressure |-> 1000, temperature |-> NoTemp],
      [currentLevel |-> 15, currentPressure |-> 90,   temperature |-> NoTemp],
      [currentLevel |-> 50, currentPressure |-> 100,  temperature |-> 60],
      [currentLevel |-> 50, currentPressure |-> 2500, temperature |-> 20],
      [currentLevel |-> 25, currentPressure |-> 2200, temperature |-> NoTemp] }
NoReading == [currentLevel |-> 0, currentPressure |-> 0, temperature |-> NoTemp]

\* (currentLevel / capacity) * 100 in IEEE arithmetic: a fraction, or what a
\* division by zero gives
FillPercentage(currentLevel, capacity) ==
    IF capacity # 0
    THEN [kind |-> "finite", num |-> currentLevel * 100, den |-> capacity]
    ELSE IF currentLevel = 0
         THEN [kind |-> "NaN", num |-> 0, den |-> 1]
         ELSE [kind |-> "Infinity", num |-> 1, den |-> 1]

\* fp <= num / den for a positive den; false for NaN and Infinity
FillAtMost(fp, num, den) ==
    /\ fp.kind = "finite"
    /\ IF fp.den > 0 THEN fp.num * den <= num * fp.den
                     ELSE fp.num * den >= num * fp.den

\* the row createTank stores
createTank(tankNumber, capacity) ==
    [ id |-> TankId, tankNumber |-> tankNumber, capacity |-> capacity,
      currentLevel |-> capacity,
      fillPercentage |-> [kind |-> "finite", num |-> 100, den |-> 1],
      currentPressure |-> 0,
      maxPressure |-> DefaultMaxPressure, minPressure |-> DefaultMinPressure,
      refillThreshold |-> DefaultRefillThreshold,
      temperature |-> NoTemp, lastReadingAt |-> NoTime ]

updateReadings(t, currentLevel, currentPressure, temperature, at) ==
    [t EXCEPT !.currentLevel = currentLevel,
              !.currentPressure = currentPressure,
              !.fillPercentage = FillPercentage(currentLevel, t.capacity),
              !.lastReadingAt = at,
              !.temperature = IF temperature # NoTemp THEN temperature ELSE @]

\* ------------------------------------------------------------------ OxygenTankService
LowLevelBreach(t) ==
    FillAtMost(t.fillPercentage, AlertThresholdNum, AlertThresholdDen)

\* the comparison with the limits counted as breaches
PressureBreachInclusive(t) ==
    t.currentPressure <= t.minPressure \/ t.currentPressure >= t.maxPressure

PressureBreach(t) ==
    t.currentPressure < t.minPressure \/ t.currentPressure > t.maxPressure

PressureType(t) ==
    IF t.currentPressure < t.minPressure THEN TANK_LOW_PRESSURE ELSE TANK_HIGH_PRESSURE

TemperatureBreach(t) ==
    /\ t.temperature # NoTemp
    /\ (t.temperature < MinTemp \/ t.temperature > MaxTempC)

\* the lookup without the status in its where clause
existingAlertAnyStatus(store, tankId, type) ==
    \E i \in 1..Len(store) :
        /\ store[i].tankId = tankId
        /\ store[i].type = type

\* alertRepository.findOne({where: {tankId, type, status: ACTIVE}}) finds a row
existingAlert(store, tankId, type) ==
    \E i \in 1..Len(store) :
        /\ store[i].tankId = tankId
        /\ store[i].type = type
        /\ store[i].status = ACTIVE

LowLevelAlert(t, at) ==
    NewAlert(t.id, TANK_LOW_LEVEL, "tank_monitoring", "high",
             [level |-> t.currentLevel, timestamp |-> at], at)

PressureAlert(t, at) ==
    NewAlert(t.id, PressureType(t), "tank_monitoring",
             IF t.currentPressure < t.minPressure THEN "high" ELSE "medium",
             [pressure |-> t.currentPressure, timestamp |-> at], at)

TemperatureAlert(t, at) ==
    NewAlert(t.id, ENVIRONMENTAL_HAZARD, "safety", "medium",
             [temperature |-> t.temperature, timestamp |-> at], at)

\* ------------------------------------------------------------------ updateTankReadings
Callers == {"c1", "c2"}
IdleCall == [pc |-> "idle"]
\* no alert waiting to be saved
NoAlert == [type |-> Null]

\* where the call awaits next, from the check `stage` on: the first check
\* whose condition holds awaits its findOne, and after the last check the
\* tank is saved
NextAwait(t, stage) ==
    IF stage = "low" /\ LowLevelBreach(t) THEN "lowLookup"
    ELSE IF stage \in {"low", "pressure"} /\ PressureBreach(t) THEN "pressureLookup"
    ELSE IF stage \in {"low", "pressure", "temperature"} /\ TemperatureBreach(t)
         THEN "temperatureLookup"
    ELSE "saveTank"

\* the types a reading keeps breached, for `streak`
Breached(t, reading) ==
    {ty \in AlertType :
        \/ ty = TANK_LOW_LEVEL /\ LowLevelBreach(t)
        \/ ty \in {TANK_LOW_PRESSURE, TANK_HIGH_PRESSURE}
              /\ PressureBreach(t) /\ ty = PressureType(t)
        \/ ty = ENVIRONMENTAL_HAZARD
              /\ reading.temperature # NoTemp /\ TemperatureBreach(t)}

\* updateTankReadings(reading) for a tank number no row has:
\* getTankByTankNumber answers null, 'Tank not found', rethrown by the catch
TankNotFound(c, tankNumber, reading) ==
    /\ calls[c].pc = "idle"
    /\ tankNumber # tank.tankNumber
    /\ result' = "Failed to update tank readings"
    /\ UNCHANGED <<users, mail, alerts, now, tank, calls, streak>>

\* updateTankReadings(reading): getTankByTankNumber answers the row,
\* updateReadings on the loaded entity (lastReadingAt ends as the reading's
\* timestamp, taken to be the clock), then the checks up to the first await
GetTank(c, tankNumber, reading) ==
    /\ calls[c].pc = "idle"
    /\ tankNumber = tank.tankNumber
    /\ LET t == updateReadings(tank, reading.currentLevel, reading.currentPressure,
                               reading.temperature, now)
       IN /\ calls' = [calls EXCEPT ![c] =
                          [pc |-> NextAwait(t, "low"), reading |-> reading,
                           tank |-> t, alert |-> NoAlert]]
          /\ streak' = [ty \in AlertType |->
                            IF ty \in Breached(t, reading) THEN streak[ty] ELSE 0]
    /\ UNCHANGED <<users, mail, alerts, now, tank, result>>

\* checkLowLevelAlert: findOne answers
LowLookup(c) ==
    /\ calls[c].pc = "lowLookup"
    /\ LET t == calls[c].tank
       IN calls' = [calls EXCEPT ![c] =
                IF existingAlert(alerts, t.id, TANK_LOW_LEVEL)
                THEN [@ EXCEPT !.pc = NextAwait(t, "pressure")]
                ELSE [@ EXCEPT !.pc = "lowSave", !.alert = LowLevelAlert(t, now)]]
    /\ UNCHANGED <<users, mail, alerts, now, tank, result, streak>>

\* alertRepository.save(alert) inserts the row, createdAt set by the insert
SaveAlert(c, pc, stage) ==
    /\ calls[c].pc = pc
    /\ Len(alerts) < MaxAlerts
    /\ alerts' = Append(alerts, [calls[c].alert EXCEPT !.createdAt = now])
    /\ streak' = [streak EXCEPT ![calls[c].alert.type] = @ + 1]
    /\ calls' = [calls EXCEPT ![c].pc = NextAwait(calls[c].tank, stage),
                              ![c].alert = NoAlert]
    /\ UNCHANGED <<users, mail, now, tank, result>>

LowSave(c) == SaveAlert(c, "lowSave", "pressure")

\* checkPressureAlert: findOne answers
PressureLookup(c) ==
    /\ calls[c].pc = "pressureLookup"
    /\ LET t == calls[c].tank
       IN calls' = [calls EXCEPT ![c] =
                IF existingAlert(alerts, t.id, PressureType(t))
                THEN [@ EXCEPT !.pc = NextAwait(t, "temperature")]
                ELSE [@ EXCEPT !.pc = "pressureSave", !.alert = PressureAlert(t, now)]]
    /\ UNCHANGED <<users, mail, alerts, now, tank, result, streak>>

PressureSave(c) == SaveAlert(c, "pressureSave", "temperature")

\* checkTemperatureAlert: findOne answers
TemperatureLookup(c) ==
    /\ calls[c].pc = "temperatureLookup"
    /\ LET t == calls[c].tank
       IN calls' = [calls EXCEPT ![c] =
                IF existingAlert(alerts, t.id, ENVIRONMENTAL_HAZARD)
                THEN [@ EXCEPT !.pc = "saveTank"]
                ELSE [@ EXCEPT !.pc = "temperatureSave",
                               !.alert = TemperatureAlert(t, now)]]
    /\ UNCHANGED <<users, mail, alerts, now, tank, result, streak>>

TemperatureSave(c) == SaveAlert(c, "temperatureSave", "done")

\* tankRepository.save(tank) writes the loaded entity back; the call returns.
\* fillPercentage is a decimal(10, 2) column of a Postgres database, which
\* takes NaN and rejects Infinity.
\* a tank save that closes the Active alerts whose condition the reading
\* has cleared
SaveTankClosing(c) ==
    /\ calls[c].pc = "saveTank"
    /\ calls[c].tank.fillPercentage.kind # "Infinity"
    /\ tank' = calls[c].tank
    /\ alerts' = [i \in 1..Len(alerts) |->
                     IF /\ alerts[i].status = ACTIVE
                        /\ alerts[i].type \notin Breached(calls[c].tank, calls[c].reading)
                     THEN [alerts[i] EXCEPT !.status = RESOLVED]
                     ELSE alerts[i]]
    /\ calls' = [calls EXCEPT ![c] = IdleCall]
    /\ result' = "ok"
    /\ UNCHANGED <<users, mail, now, streak>>

SaveTank(c) ==
    /\ calls[c].pc = "saveTank"
    /\ calls[c].tank.fillPercentage.kind # "Infinity"
    /\ tank' = calls[c].tank
    /\ calls' = [calls EXCEPT ![c] = IdleCall]
    /\ result' = "ok"
    /\ UNCHANGED <<users, mail, alerts, now, streak>>

\* tankRepository.save(tank) throws, rethrown by the catch
SaveTankRejected(c) ==
    /\ calls[c].pc = "saveTank"
    /\ calls[c].tank.fillPercentage.kind = "Infinity"
    /\ calls' = [calls EXCEPT ![c] = IdleCall]
    /\ result' = "Failed to update tank readings"
    /\ UNCHANGED <<users, mail, alerts, now, tank, streak>>

\* ------------------------------------------------------------------ transitions on a stored alert
\* each loads alert i, calls the entity method and saves it
Acknowledge(i, by, notes) ==
    /\ alerts' = [alerts EXCEPT ![i] = acknowledge(@, by, notes, now)]
    /\ result' = "ok"
    /\ UNCHANGED <<users, mail, now, tank, calls, streak>>

Resolve(i, by, notes) ==
    /\ alerts' = [alerts EXCEPT ![i] = resolve(@, by, notes, now)]
    /\ result' = "ok"
    /\ streak' = [streak EXCEPT ![alerts[i].type] = 0]
    /\ UNCHANGED <<users, mail, now, tank, calls>>

Escalate(i, to, reason) ==
    /\ alerts' = [alerts EXCEPT ![i] = escalate(@, to, reason, now)]
    /\ result' = "ok"
    /\ UNCHANGED <<users, mail, now, tank, calls, streak>>

Dismiss(i, by, reason) ==
    /\ alerts' = [alerts EXCEPT ![i] = dismiss(@, by, reason, now)]
    /\ result' = "ok"
    /\ streak' = [streak EXCEPT ![alerts[i].type] = 0]
    /\ UNCHANGED <<users, mail, now, tank, calls>>

RecordNotification(i, method, recipient, status) ==
    /\ Len(alerts[i].notificationHistory) < MaxNotifications
    /\ alerts' = [alerts EXCEPT ![i] =
                     addNotification(@, method, recipient, status, Undefined, now)]
    /\ result' = "ok"
    /\ UNCHANGED <<users, mail, now, tank, calls, streak>>

\* a caller asks alert i whether it is due for automatic escalation
ShouldEscalate(i) ==
    /\ result' = IF shouldEscalate(alerts[i], now) THEN "escalate" ELSE "wait"
    /\ UNCHANGED <<users, mail, alerts, now, tank, calls, streak>>

Tick ==
    /\ now < MaxTime
    /\ now' = now + 1
    /\ UNCHANGED <<users, mail, alerts, tank, calls, result, streak>>

\* ------------------------------------------------------------------ User entity
\* UserRole
ADMIN == "admin"
OPERATOR == "operator"
VIEWER == "viewer"
EMERGENCY_RESPONDER == "emergency_responder"
UserRole == {ADMIN, OPERATOR, VIEWER, EMERGENCY_RESPONDER}

\* UserStatus (its ACTIVE is the string 'active', as AlertStatus.ACTIVE)
INACTIVE == "inactive"
SUSPENDED == "suspended"
PENDING_VERIFICATION == "pending_verification"
UserStatus == {ACTIVE, INACTIVE, SUSPENDED, PENDING_VERIFICATION}

\* token and expiry lifetimes, the clock of the user service counting hours
ResetTokenHours == 1            \* 3600000 ms
VerificationTokenHours == 24    \* 86400000 ms

\* a token column that is null; tokens are the numbers from 1 on
NoToken == 0
NoUser == [email |-> Null]

\* a password as typed, and what bcrypt.hash makes of it
Plain(p) == [hashed |-> FALSE, text |-> p]
Hash(p) == [hashed |-> TRUE, text |-> p]

\* randomBytes(32): a token no e-mail carried before
FreshToken == Len(mail) + 1

\* @BeforeInsert / @BeforeUpdate hashPassword: a password shorter than the
\* 60 characters of a bcrypt hash (every password drawn here) is hashed
hashPassword(u, t) ==
    IF ~u.password.hashed
    THEN [u EXCEPT !.password = Hash(@.text), !.passwordChangedAt = t]
    ELSE u

\* a comparison that accepts every candidate
comparePasswordAny(u, candidatePassword) == u.password.hashed

\* bcrypt.compare(candidatePassword, this.password)
comparePassword(u, candidatePassword) ==
    u.password.hashed /\ u.password.text = candidatePassword

updateLastLogin(u, ip, t) == [u EXCEPT !.lastLoginAt = t, !.lastLoginIp = ip]

generateEmailVerificationToken(u, token, t) ==
    [u EXCEPT !.emailVerificationToken = token,
              !.emailVerificationExpires = t + VerificationTokenHours]

\* a reset that leaves the token and its expiry stored
clearPasswordResetKeeps(u) == u

clearPasswordReset(u) ==
    [u EXCEPT !.passwordResetToken = NoToken, !.passwordResetExpires = NoTime]

clearEmailVerification(u) ==
    [u EXCEPT !.emailVerificationToken = NoToken,
              !.emailVerificationExpires = NoTime]

isPasswordResetTokenValid(u, t) ==
    /\ u.passwordResetToken # NoToken
    /\ u.passwordResetExpires # NoTime
    /\ u.passwordResetExpires > t

isEmailVerificationTokenValid(u, t) ==
    /\ u.emailVerificationToken # NoToken
    /\ u.emailVerificationExpires # NoTime
    /\ u.emailVerificationExpires > t

\* userRepository.create(...) with the column defaults
NewUser(email, username, password, role, status, emailVerified) ==
    [ email |-> email, username |-> username, password |-> Plain(password),
      role |-> role, status |-> status, emailVerified |-> emailVerified,
      passwordChangedAt |-> NoTime,
      passwordResetToken |-> NoToken, passwordResetExpires |-> NoTime,
      emailVerificationToken |-> NoToken, emailVerificationExpires |-> NoTime,
      lastLoginAt |-> NoTime, lastLoginIp |-> Null ]

\* the e-mail addresses, user names and passwords requests carry
Emails == {"admin@sos.com", "new@sos.com"}
Usernames == {"admin", "newuser"}
Passwords == {"admin123", "Passw0rd!"}
ClientIp == "10.0.0.1"

\* seedDatabase: the default admin user, active and verified
SeededUsers ==
    /\ users = [e \in Emails |->
                   IF e = "admin@sos.com"
                   THEN hashPassword(NewUser(e, "admin", "admin123", ADMIN,
                                             ACTIVE, TRUE), 0)
                   ELSE NoUser]
    /\ mail = <<>>

\* ------------------------------------------------------------------ the service
RECURSIVE SumActions(_)
SumActions(store) ==
    IF store = <<>> THEN 0
    ELSE Len(Head(store).actionHistory) + SumActions(Tail(store))

Init ==
    /\ alerts = <<>>
    /\ now = 0
    /\ tank \in {createTank("T1", cap) : cap \in Capacities}
    /\ calls = [c \in Callers |-> IdleCall]
    /\ result = "none"
    /\ streak = [ty \in AlertType |-> 0]
    /\ SeededUsers

\* the service applies at most MaxOps transitions, by one operator
MayOperate == SumActions(alerts) < MaxOps

Next ==
    \/ \E c \in Callers, r \in Readings : GetTank(c, "T1", r)
    \/ \E c \in Callers : TankNotFound(c, "T9", NoReading)
    \/ \E c \in Callers : LowLookup(c)
    \/ \E c \in Callers : LowSave(c)
    \/ \E c \in Callers : PressureLookup(c)
    \/ \E c \in Callers : PressureSave(c)
    \/ \E c \in Callers : TemperatureLookup(c)
    \/ \E c \in Callers : TemperatureSave(c)
    \/ \E c \in Callers : SaveTank(c)
    \/ \E c \in Callers : SaveTankRejected(c)
    \/ \E i \in 1..Len(alerts) : MayOperate /\ Acknowledge(i, "u1", Undefined)
    \/ \E i \in 1..Len(alerts) : MayOperate /\ Resolve(i, "u1", Undefined)
    \/ \E i \in 1..Len(alerts) : MayOperate /\ Escalate(i, "u2", "r1")
    \/ \E i \in 1..Len(alerts) : MayOperate /\ Dismiss(i, "u1", Undefined)

Spec == Init /\ [][Next]_vars

\* ------------------------------------------------------------------ one alert's lifecycle
\* the store holds the low-level alert the service raised for an empty tank
InitLifecycle ==
    /\ now = 0
    /\ tank = updateReadings(createTank("T1", 100), 0, 1000, NoTemp, 0)
    /\ alerts = << LowLevelAlert(tank, 0) >>
    /\ calls = [c \in Callers |-> IdleCall]
    /\ result = "ok"
    /\ streak = [ty \in AlertType |-> IF ty = TANK_LOW_LEVEL THEN 1 ELSE 0]
    /\ SeededUsers

MayTransition(i) == Len(alerts[i].actionHistory) < MaxActions

NextLifecycle ==
    \/ \E i \in 1..Len(alerts), by \in Users, notes \in NoteArgs :
           MayTransition(i) /\ Acknowledge(i, by, notes)
    \/ \E i \in 1..Len(alerts), notes \in NoteArgs :
           MayTransition(i) /\ Resolve(i, "u1", notes)
    \/ \E i \in 1..Len(alerts) : MayTransition(i) /\ Escalate(i, "u2", "r1")
    \/ \E i \in 1..Len(alerts) : MayTransition(i) /\ Dismiss(i, "u1", Undefined)
    \/ \E i \in 1..Len(alerts) : RecordNotification(i, "email", "u1", "sent")
    \/ Tick

Lifecycle == InitLifecycle /\ [][NextLifecycle]_vars

\* calls one after another: a call starts only when no other is in flight
NoCallInFlight == \A c \in Callers : calls[c].pc = "idle"

NextSequential ==
    \/ \E c \in Callers, r \in Readings : NoCallInFlight /\ GetTank(c, "T1", r)
    \/ \E c \in Callers : NoCallInFlight /\ TankNotFound(c, "T9", NoReading)
    \/ \E c \in Callers : LowLookup(c)
    \/ \E c \in Callers : LowSave(c)
    \/ \E c \in Callers : PressureLookup(c)
    \/ \E c \in Callers : PressureSave(c)
    \/ \E c \in Callers : TemperatureLookup(c)
    \/ \E c \in Callers : TemperatureSave(c)
    \/ \E c \in Callers : SaveTank(c)
    \/ \E c \in Callers : SaveTankRejected(c)
    \/ \E i \in 1..Len(alerts) : MayOperate /\ Acknowledge(i, "u1", Undefined)
    \/ \E i \in 1..Len(alerts) : MayOperate /\ Resolve(i, "u1", Undefined)
    \/ \E i \in 1..Len(alerts) : MayOperate /\ Escalate(i, "u2", "r1")
    \/ \E i \in 1..Len(alerts) : MayOperate /\ Dismiss(i, "u1", Undefined)

Sequential == Init /\ [][NextSequential]_vars

\* ------------------------------------------------------------------ automatic escalation
\* the clock counts seconds; the alert was created at 0 with either setting
\* of autoEscalate and a delay of 5 or 300 seconds
EscalationDelays == {5, DefaultEscalationDelay}
ClockValues == {4, 5, 59, 60, 299, 300, 301, 17999, 18000}

InitEscalation ==
    /\ now = 0
    /\ tank = updateReadings(createTank("T1", 100), 0, 1000, NoTemp, 0)
    /\ \E auto \in BOOLEAN, delay \in EscalationDelays :
         alerts = << [LowLevelAlert(tank, 0) EXCEPT !.autoEscalate = auto,
                                                    !.escalationDelay = delay] >>
    /\ calls = [c \in Callers |-> IdleCall]
    /\ result = "ok"
    /\ streak = [ty \in AlertType |-> IF ty = TANK_LOW_LEVEL THEN 1 ELSE 0]
    /\ SeededUsers

\* time passes up to the clock value t
Wait(t) ==
    /\ now < t
    /\ now' = t
    /\ UNCHANGED <<users, mail, alerts, tank, calls, result, streak>>

NextEscalation ==
    \/ \E t \in ClockValues : Wait(t)
    \/ \E i \in 1..Len(alerts) : ShouldEscalate(i)
    \/ \E i \in 1..Len(alerts) : MayOperate /\ Acknowledge(i, "u1", Undefined)
    \/ \E i \in 1..Len(alerts) : MayOperate /\ Escalate(i, "u2", "r1")
    \/ \E i \in 1..Len(alerts) : MayOperate /\ Resolve(i, "u1", Undefined)
    \/ \E i \in 1..Len(alerts) : MayOperate /\ Dismiss(i, "u1", Undefined)

Escalation == InitEscalation /\ [][NextEscalation]_vars

\* ------------------------------------------------------------------ calls on one alert
\* A transition requested by a caller runs as load, entity method, save.  The
\* calls on one alert are serialized by a lock on the alert's id: a caller
\* loads the row only while no other caller holds a loaded copy of it.
TransitionOps == {"acknowledge", "resolve"}

Transition(op, a, by, t) ==
    IF op = "acknowledge" THEN acknowledge(a, by, Undefined, t)
                          ELSE resolve(a, by, Undefined, t)

Locked(i) == \E c \in Callers : calls[c].pc = "loaded" /\ calls[c].id = i

\* the caller asks for op on alert i and waits for the alert's lock
Request(c, i, op, by) ==
    /\ calls[c].pc = "idle"
    /\ calls' = [calls EXCEPT ![c] = [pc |-> "requested", op |-> op,
                                      id |-> i, by |-> by]]
    /\ UNCHANGED <<users, mail, alerts, now, tank, result, streak>>

\* the lock is granted and the row read
LoadAlert(c) ==
    /\ calls[c].pc = "requested"
    /\ ~Locked(calls[c].id)
    /\ calls' = [calls EXCEPT ![c] = [pc |-> "loaded", op |-> @.op, id |-> @.id,
                                      by |-> @.by, alert |-> alerts[@.id]]]
    /\ UNCHANGED <<users, mail, alerts, now, tank, result, streak>>

\* the entity method runs on the loaded copy, the copy replaces the row, the
\* lock is released and the call returns
SaveTransition(c) ==
    /\ calls[c].pc = "loaded"
    /\ alerts' = [alerts EXCEPT ![calls[c].id] =
                      Transition(calls[c].op, calls[c].alert, calls[c].by, now)]
    /\ calls' = [calls EXCEPT ![c] = [pc |-> "returned", op |-> @.op, id |-> @.id,
                                      by |-> @.by, outcome |-> "ok"]]
    /\ result' = "ok"
    /\ UNCHANGED <<users, mail, now, tank, streak>>

NextSerialized ==
    \/ \E c \in Callers, i \in 1..Len(alerts), op \in TransitionOps, by \in Users :
           Request(c, i, op, by)
    \/ \E c \in Callers : LoadAlert(c)
    \/ \E c \in Callers : SaveTransition(c)
    \/ Tick

Serialized == InitLifecycle /\ [][NextSerialized]_vars

\* ------------------------------------------------------------------ AuthService
\* Each service method is one step: the calls on the user repository come one
\* at a time.  The clock counts hours.  `result` holds what the call returned
\* or the message of the error it raised.
MaxMail == 2           \* e-mails (tokens) the service sends

AuthFrame == UNCHANGED <<alerts, now, tank, calls, streak>>

\* findOne({ where: [{ email }, { username }] })
existingUser(email, username) ==
    \E e \in Emails : /\ users[e] # NoUser
                      /\ (users[e].email = email \/ users[e].username = username)

\* findOne({ where: { passwordResetToken: token } })
userByResetToken(token) ==
    IF \E e \in Emails : users[e] # NoUser /\ users[e].passwordResetToken = token
    THEN users[CHOOSE e \in Emails :
                   users[e] # NoUser /\ users[e].passwordResetToken = token]
    ELSE NoUser

\* findOne({ where: { emailVerificationToken: token } })
userByVerificationToken(token) ==
    IF \E e \in Emails : users[e] # NoUser /\ users[e].emailVerificationToken = token
    THEN users[CHOOSE e \in Emails :
                   users[e] # NoUser /\ users[e].emailVerificationToken = token]
    ELSE NoUser

\* userRepository.save(user)
saveUser(u) == [users EXCEPT ![u.email] = hashPassword(u, now)]

sendEmail(kind, u, token) ==
    Append(mail, [kind |-> kind, to |-> u.email, token |-> token])

Register(email, username, password, role) ==
    /\ AuthFrame
    /\ IF existingUser(email, username)
       THEN /\ result' = "User with this email or username already exists"
            /\ UNCHANGED <<users, mail>>
       ELSE /\ Len(mail) < MaxMail
            /\ LET user == generateEmailVerificationToken(
                               NewUser(email, username, password,
                                       IF role = Undefined THEN VIEWER ELSE role,
                                       PENDING_VERIFICATION, FALSE),
                               FreshToken, now)
               IN /\ users' = saveUser(user)
                  /\ mail' = sendEmail("verification", user, FreshToken)
            /\ result' = "tokens"

Login(email, password, ip) ==
    /\ AuthFrame
    /\ UNCHANGED mail
    /\ LET user == users[email]
       IN IF user = NoUser
          THEN result' = "Invalid credentials" /\ UNCHANGED users
          ELSE IF user.status # ACTIVE
          THEN result' = "Account is not active" /\ UNCHANGED users
          ELSE IF ~comparePassword(user, password)
          THEN result' = "Invalid credentials" /\ UNCHANGED users
          ELSE IF ~user.emailVerified
          THEN result' = "Please verify your email" /\ UNCHANGED users
          ELSE /\ users' = saveUser(updateLastLogin(user, ip, now))
               /\ result' = "tokens"

\* requestPasswordReset without the early return: an e-mail goes out for an
\* address that has no row
requestPasswordResetAlwaysMails(user) ==
    /\ Len(mail) < MaxMail
    /\ users' = IF user = NoUser THEN users
                ELSE saveUser([user EXCEPT
                                 !.passwordResetToken = FreshToken,
                                 !.passwordResetExpires = now + ResetTokenHours])
    /\ mail' = sendEmail("reset", user, FreshToken)

\* requestPasswordReset once getUserByEmail has answered with the row `user`
requestPasswordReset(user) ==
    IF user = NoUser
    THEN UNCHANGED <<users, mail>>
    ELSE /\ Len(mail) < MaxMail
         /\ users' = saveUser([user EXCEPT
                                 !.passwordResetToken = FreshToken,
                                 !.passwordResetExpires = now + ResetTokenHours])
         /\ mail' = sendEmail("reset", user, FreshToken)

RequestPasswordReset(email) ==
    /\ AuthFrame
    /\ requestPasswordReset(users[email])
    /\ result' = "returned"

\* POST /forgot-password hands the service the request body { email }, not
\* the address: the lookup `where: { email: { email } }` finds the row of the
\* address or none, as the driver binds the parameter.  The route answers
\* success: true after the call and in its catch block alike.
ForgotPassword(email) ==
    /\ AuthFrame
    /\ \E user \in {users[email], NoUser} : requestPasswordReset(user)
    /\ result' = "success"

\* confirmPasswordReset: for a valid token the call of
\* user.clearPasswordResetToken(), a method the entity lacks, raises a
\* TypeError before the save
ConfirmPasswordReset(token, newPassword) ==
    /\ AuthFrame
    /\ UNCHANGED <<users, mail>>
    /\ LET user == userByResetToken(token)
       IN IF user = NoUser \/ ~isPasswordResetTokenValid(user, now)
          THEN result' = "Invalid or expired reset token"
          ELSE result' = "TypeError"

ResetPassword(token, newPassword) ==
    /\ AuthFrame
    /\ UNCHANGED mail
    /\ LET user == userByResetToken(token)
       IN IF \/ user = NoUser
             \/ user.passwordResetExpires = NoTime
             \/ user.passwordResetExpires < now
          THEN result' = "Invalid or expired reset token" /\ UNCHANGED users
          ELSE /\ users' = saveUser(clearPasswordReset(
                               [user EXCEPT !.password = Hash(newPassword),
                                            !.passwordChangedAt = now]))
               /\ result' = "returned"

RequestEmailVerification(email) ==
    /\ AuthFrame
    /\ LET user == users[email]
       IN IF user = NoUser \/ user.emailVerified
          THEN UNCHANGED <<users, mail>>
          ELSE /\ Len(mail) < MaxMail
               /\ users' = saveUser([user EXCEPT
                                 !.emailVerificationToken = FreshToken,
                                 !.emailVerificationExpires = now + ResetTokenHours])
               /\ mail' = sendEmail("verification", user, FreshToken)
    /\ result' = "returned"

\* confirmEmailVerification: for a valid token the call of
\* user.clearEmailVerificationToken(), a method the entity lacks, raises a
\* TypeError before the save
ConfirmEmailVerification(token) ==
    /\ AuthFrame
    /\ UNCHANGED <<users, mail>>
    /\ LET user == userByVerificationToken(token)
       IN IF user = NoUser \/ ~isEmailVerificationTokenValid(user, now)
          THEN result' = "Invalid or expired verification token"
          ELSE result' = "TypeError"

VerifyEmail(token) ==
    /\ AuthFrame
    /\ UNCHANGED mail
    /\ LET user == userByVerificationToken(token)
       IN IF \/ user = NoUser
             \/ user.emailVerificationExpires = NoTime
             \/ user.emailVerificationExpires < now
          THEN result' = "Invalid or expired verification token" /\ UNCHANGED users
          ELSE /\ users' = saveUser(clearEmailVerification(
                               [user EXCEPT !.emailVerified = TRUE]))
               /\ result' = "returned"

\* the tokens a caller may present: those mailed so far and one never issued
Tokens == 1..(MaxMail + 1)
AuthClock == {1, 2, 25}

NextAuth ==
    \/ \E t \in AuthClock : Wait(t)
    \/ \E e \in Emails, n \in Usernames : Register(e, n, "Passw0rd!", Undefined)
    \/ \E e \in Emails, p \in Passwords : Login(e, p, ClientIp)
    \/ \E e \in Emails : RequestPasswordReset(e)
    \/ \E e \in Emails : ForgotPassword(e)
    \/ \E k \in Tokens : ConfirmPasswordReset(k, "admin123")
    \/ \E k \in Tokens : ResetPassword(k, "admin123")
    \/ \E e \in Emails : RequestEmailVerification(e)
    \/ \E k \in Tokens : ConfirmEmailVerification(k)
    \/ \E k \in Tokens : VerifyEmail(k)

\* no alert stored, the tank of capacity 100, the seeded admin
InitAuth == Init /\ tank = createTank("T1", 100)

Auth == InitAuth /\ [][NextAuth]_vars

\* ------------------------------------------------------------------ tank routes
\* Who sends a request: the role carried by a valid access token, or no
\* valid token.
Anonymous == "anonymous"
Principals == UserRole \cup {Anonymous}

\* the tank row after tankRepository.remove
NoTank == [id |-> Null, tankNumber |-> Null]

\* authenticateToken: 401 without a valid token, else req.user is the
\* decoded payload and the next handler runs
authenticateToken(p) == IF p = Anonymous THEN "401" ELSE "next"

\* requireRole(allowedRoles), run after authenticateToken
requireRole(allowedRoles, p) ==
    IF p = Anonymous THEN "401"
    ELSE IF p \notin allowedRoles THEN "403"
    ELSE "next"

\* a middleware has answered the request with the status `code`
Denied(code) ==
    /\ result' = code
    /\ UNCHANGED <<users, mail, alerts, now, tank, calls, streak>>

\* POST /readings: authenticateToken, then updateTankReadings
PostReadings(c, p, tankNumber, reading) ==
    IF authenticateToken(p) # "next"
    THEN Denied(authenticateToken(p))
    ELSE /\ NoCallInFlight
         /\ \/ GetTank(c, tankNumber, reading)
            \/ TankNotFound(c, tankNumber, reading)

\* updateTank(id, data) with data = { capacity }: Object.assign writes the
\* capacity first, so the comparison that follows finds no change
updateTank(t, data) ==
    LET assigned == [t EXCEPT !.capacity = data.capacity]
    IN IF data.capacity # 0 /\ data.capacity # assigned.capacity
       THEN [assigned EXCEPT
               !.fillPercentage = FillPercentage(assigned.currentLevel, data.capacity)]
       ELSE assigned

\* PUT /:id: authenticateToken, requireRole([ADMIN, OPERATOR]), updateTank
PutTank(p, id, data) ==
    IF requireRole({ADMIN, OPERATOR}, p) # "next"
    THEN Denied(requireRole({ADMIN, OPERATOR}, p))
    ELSE /\ NoCallInFlight
         /\ IF id = tank.id
            THEN tank' = updateTank(tank, data) /\ result' = "ok"
            ELSE tank' = tank /\ result' = "Failed to update tank"
         /\ UNCHANGED <<users, mail, alerts, now, calls, streak>>

\* DELETE /:id: authenticateToken, requireRole([ADMIN]), deleteTank
DeleteTank(p, id) ==
    IF requireRole({ADMIN}, p) # "next"
    THEN Denied(requireRole({ADMIN}, p))
    ELSE /\ NoCallInFlight
         /\ IF id = tank.id
            THEN tank' = NoTank /\ result' = "ok"
            ELSE tank' = tank /\ result' = "Failed to delete tank"
         /\ UNCHANGED <<users, mail, alerts, now, calls, streak>>

TankUpdates == { [capacity |-> 50] }

NextRoutes ==
    \/ \E c \in Callers, p \in Principals, r \in Readings :
           PostReadings(c, p, "T1", r)
    \/ \E c \in Callers, p \in Principals : PostReadings(c, p, "T9", NoReading)
    \/ \E p \in Principals, data \in TankUpdates : PutTank(p, TankId, data)
    \/ \E p \in Principals : DeleteTank(p, TankId)
    \/ \E c \in Callers : LowLookup(c)
    \/ \E c \in Callers : LowSave(c)
    \/ \E c \in Callers : PressureLookup(c)
    \/ \E c \in Callers : PressureSave(c)
    \/ \E c \in Callers : TemperatureLookup(c)
    \/ \E c \in Callers : TemperatureSave(c)
    \/ \E c \in Callers : SaveTank(c)
    \/ \E c \in Callers : SaveTankRejected(c)

Routes == Init /\ [][NextRoutes]_vars

\* ================================================================== properties
Stored == 1..Len(alerts)
Open == {ACTIVE, ESCALATED}
Terminal == {RESOLVED, DISMISSED}
SamePair(a, b) == a.tankId = b.tankId /\ a.type = b.type

IsPrefix(s, t) ==
    /\ Len(s) <= Len(t)
    /\ \A k \in 1..Len(s) : t[k] = s[k]

\* the transition a step applied to an alert: the action of the entry it
\* appended to action-history, "none" when it appended nothing
Applied(a, b) ==
    IF Len(b.actionHistory) = Len(a.actionHistory) + 1
    THEN b.actionHistory[Len(b.actionHistory)].action
    ELSE "none"

\* C1: for each (tankId, alert type) at most one alert is Active or
\* Escalated, whatever readings and transitions came one after another.
C1_AtMostOneOpenAlert ==
    \A i, j \in Stored :
        (/\ i # j
         /\ SamePair(alerts[i], alerts[j])
         /\ alerts[i].status \in Open)
        => alerts[j].status \notin Open

\* C2: while the readings keep a (tank, condition) breached and its alert is
\* only acknowledged or escalated, no second alert is created for the pair:
\* at most one creation since the condition was last clear or an alert of
\* the pair was resolved or dismissed.
C2_OneAlertWhileBreached ==
    \A ty \in AlertType : streak[ty] <= 1

\* C3: the duplicate check and the creation are atomic: when a call inserts
\* an alert, the lookup it made still holds, no Active alert of the same
\* (tank, type) is stored, so concurrent calls never both create one.
C3_CheckThenCreateAtomic ==
    [][Len(alerts') > Len(alerts)
        => ~existingAlert(alerts, alerts'[Len(alerts')].tankId,
                          alerts'[Len(alerts')].type)]_vars

\* C4: once an alert is Resolved or Dismissed no operation changes its
\* status.
C4_TerminalIsFinal ==
    [][\A i \in Stored :
          alerts[i].status \in Terminal => alerts'[i].status = alerts[i].status]_vars

\* C5: an operation invoked in a status it is not legal from signals
\* InvalidTransitionError and leaves the alert as it was.
LegalFrom(op) ==
    CASE op = "acknowledge" -> {ACTIVE, ESCALATED}
      [] op = "escalate" -> {ACTIVE, ACKNOWLEDGED}
      [] OTHER -> {ACTIVE, ACKNOWLEDGED, ESCALATED}

Rejected(i) == result' = "InvalidTransitionError" /\ alerts'[i] = alerts[i]

C5_IllegalTransitionRejected ==
    [][\A i \in Stored :
          /\ \A by \in Users, notes \in NoteArgs :
                Acknowledge(i, by, notes) /\ alerts[i].status \notin LegalFrom("acknowledge")
                    => Rejected(i)
          /\ \A notes \in NoteArgs :
                Resolve(i, "u1", notes) /\ alerts[i].status \notin LegalFrom("resolve")
                    => Rejected(i)
          /\ Escalate(i, "u2", "r1") /\ alerts[i].status \notin LegalFrom("escalate")
                    => Rejected(i)
          /\ Dismiss(i, "u1", Undefined) /\ alerts[i].status \notin LegalFrom("dismiss")
                    => Rejected(i)]_vars

\* C6: an alert that is already Escalated cannot be escalated again: from
\* status Escalated no step raises escalationLevel or appends to
\* escalation-history.
C6_NoEscalateFromEscalated ==
    [][\A i \in Stored :
          alerts[i].status = ESCALATED
              => /\ alerts'[i].escalationLevel = alerts[i].escalationLevel
                 /\ alerts'[i].escalationHistory = alerts[i].escalationHistory]_vars

\* C7: escalationLevel never decreases, grows by exactly 1 on each escalate
\* and is left alone by acknowledge, resolve, dismiss and recordNotification.
C7_EscalationLevelMonotone ==
    [][\A i \in Stored :
          LET a == alerts[i]
              b == alerts'[i]
          IN /\ b.escalationLevel >= a.escalationLevel
             /\ Applied(a, b) = "escalated" => b.escalationLevel = a.escalationLevel + 1
             /\ Applied(a, b) # "escalated" => b.escalationLevel = a.escalationLevel]_vars

\* an alert escalated twice and then acknowledged
C7_Witness ==
    \E i \in Stored :
        /\ alerts[i].escalationLevel = 2
        /\ alerts[i].status = ACKNOWLEDGED
        /\ alerts[i].notificationCount = 1

\* C8: acknowledgedAt and acknowledgedBy, once set, survive a later
\* acknowledge (one the lifecycle allows: from Active or Escalated), and
\* every acknowledge adds 1 to acknowledgmentCount.
C8_FirstAcknowledgmentWins ==
    [][\A i \in Stored :
          LET a == alerts[i]
              b == alerts'[i]
          IN /\ (a.acknowledgedAt # NoTime /\ a.status \in LegalFrom("acknowledge"))
                    => /\ b.acknowledgedAt = a.acknowledgedAt
                       /\ b.acknowledgedBy = a.acknowledgedBy
             /\ Applied(a, b) = "acknowledged"
                    => b.acknowledgmentCount = a.acknowledgmentCount + 1]_vars

\* C9: the three histories are append-only: every step leaves each entry
\* already written at its position, unchanged, and removes none.
C9_HistoriesAppendOnly ==
    [][\A i \in Stored :
          /\ IsPrefix(alerts[i].actionHistory, alerts'[i].actionHistory)
          /\ IsPrefix(alerts[i].escalationHistory, alerts'[i].escalationHistory)
          /\ IsPrefix(alerts[i].notificationHistory, alerts'[i].notificationHistory)]_vars

\* all three histories written, action-history more than once
C9_Witness ==
    \E i \in Stored :
        /\ Len(alerts[i].actionHistory) >= 2
        /\ Len(alerts[i].escalationHistory) >= 1
        /\ Len(alerts[i].notificationHistory) >= 1

\* C10: the timestamp fields the transitions own
TimestampFields == {"acknowledgedAt", "resolvedAt", "escalatedAt"}
\* a step that changed the alert other than by logging a notification
Transitioned(a, b) == a # b /\ b.notificationHistory = a.notificationHistory
OthersKept(a, b, f) == \A g \in TimestampFields \ {f} : b[g] = a[g]

\* C10 as stated: every transition, dismiss included, appends one
\* action-history entry and stamps exactly one timestamp field of the alert.
C10_EachTransitionStampsOneField ==
    [][\A i \in Stored :
          LET a == alerts[i]
              b == alerts'[i]
          IN Transitioned(a, b)
                => /\ Len(b.actionHistory) = Len(a.actionHistory) + 1
                   /\ IsPrefix(a.actionHistory, b.actionHistory)
                   /\ \E f \in TimestampFields : b[f] = now /\ OthersKept(a, b, f)]_vars

\* C10 amended: every transition appends one action-history entry;
\* acknowledge, resolve and escalate stamp their own field and keep the
\* other two, dismiss stamps no timestamp field of the alert (its time is
\* the performedAt of its action-history entry).
C10_TransitionStampsOwnField ==
    [][\A i \in Stored :
          LET a == alerts[i]
              b == alerts'[i]
              op == Applied(a, b)
          IN Transitioned(a, b)
                => /\ op \in {"acknowledged", "resolved", "escalated", "dismissed"}
                   /\ IsPrefix(a.actionHistory, b.actionHistory)
                   /\ b.actionHistory[Len(b.actionHistory)].performedAt = now
                   /\ op = "acknowledged"
                        => b.acknowledgedAt = now /\ OthersKept(a, b, "acknowledgedAt")
                   /\ op = "resolved"
                        => b.resolvedAt = now /\ OthersKept(a, b, "resolvedAt")
                   /\ op = "escalated"
                        => b.escalatedAt = now /\ OthersKept(a, b, "escalatedAt")
                   /\ op = "dismissed"
                        => \A f \in TimestampFields : b[f] = a[f]]_vars

\* an alert acknowledged, escalated and then dismissed, at a later time
C10_Witness ==
    \E i \in Stored :
        /\ alerts[i].status = DISMISSED
        /\ alerts[i].acknowledgedAt = 0
        /\ alerts[i].escalatedAt = 0
        /\ alerts[i].resolvedAt = NoTime
        /\ alerts[i].actionHistory[Len(alerts[i].actionHistory)].performedAt = 1

\* C11: asked at any time, shouldEscalate answers true exactly when
\* autoEscalate is set, the status is Active and the seconds elapsed since
\* createdAt are at least escalationDelay (300 s delay, 301 s old: true).
DueForEscalation(a, t) ==
    a.autoEscalate /\ a.status = ACTIVE /\ t - a.createdAt >= a.escalationDelay

C11_ShouldEscalateWhenDue ==
    [][\A i \in Stored :
          ShouldEscalate(i) =>
              (result' = "escalate" <=> DueForEscalation(alerts[i], now))]_vars

\* the condition a call is looking up, and where it saves the alert it builds
AwaitsLookup(c) == calls[c].pc \in {"lowLookup", "pressureLookup", "temperatureLookup"}
LookupType(c) ==
    IF calls[c].pc = "lowLookup" THEN TANK_LOW_LEVEL
    ELSE IF calls[c].pc = "pressureLookup" THEN PressureType(calls[c].tank)
    ELSE ENVIRONMENTAL_HAZARD
SavePc(pc) ==
    IF pc = "lowLookup" THEN "lowSave"
    ELSE IF pc = "pressureLookup" THEN "pressureSave"
    ELSE "temperatureSave"

AwaitsSave(c) == calls[c].pc \in {"lowSave", "pressureSave", "temperatureSave"}

\* every alert the store holds for the tank and the type is Resolved or Dismissed
AllTerminal(tankId, ty) ==
    /\ \E i \in Stored : alerts[i].tankId = tankId /\ alerts[i].type = ty
    /\ \A i \in Stored :
          alerts[i].tankId = tankId /\ alerts[i].type = ty
              => alerts[i].status \in Terminal

\* C12: re-arming.  When a breaching reading looks the alert of its
\* (tank, condition) up and the alerts of that pair are all Resolved or
\* Dismissed, the call goes on to save a new alert, Active with
\* escalationLevel 0; and a saved alert gets the next unused id, is Active
\* at level 0 with empty histories, and leaves the stored alerts as they are.
C12_ReArmed ==
    [][/\ \A c \in Callers :
             AwaitsLookup(c) /\ calls'[c] # calls[c]
                 /\ AllTerminal(calls[c].tank.id, LookupType(c))
             => /\ calls'[c].pc = SavePc(calls[c].pc)
                /\ calls'[c].alert.tankId = calls[c].tank.id
                /\ calls'[c].alert.type = LookupType(c)
                /\ calls'[c].alert.status = ACTIVE
                /\ calls'[c].alert.escalationLevel = 0
       /\ Len(alerts') # Len(alerts)
             => /\ Len(alerts') = Len(alerts) + 1
                /\ IsPrefix(alerts, alerts')
                /\ LET new == alerts'[Len(alerts')]
                   IN /\ new.status = ACTIVE
                      /\ new.escalationLevel = 0
                      /\ new.actionHistory = <<>>
                      /\ new.escalationHistory = <<>>
                      /\ \E c \in Callers :
                             /\ AwaitsSave(c)
                             /\ calls[c].alert.type = new.type]_vars

\* alert 1 was resolved or dismissed straight from Active, and alert 2 is the
\* new Active alert of the same pair
C12_Witness ==
    /\ Len(alerts) >= 2
    /\ alerts[1].status \in Terminal
    /\ Len(alerts[1].actionHistory) = 1
    /\ SamePair(alerts[1], alerts[2])
    /\ alerts[2].status = ACTIVE
    /\ alerts[2].escalationLevel = 0

\* a call that has just loaded the tank and applied its reading
Started(c) == calls[c].pc = "idle" /\ calls'[c].pc # "idle"

\* C13: a reading is taken as a low-level breach (the call goes on to look
\* the low-level alert up) exactly when currentLevel / capacity * 100 is at
\* most the tank's refillThreshold, a percentage: capacity 100 and
\* threshold 20, level 15 is a breach and level 25 is none.
C13_LowLevelBreachAtRefillThreshold ==
    [][\A c \in Callers :
          Started(c) =>
              LET t == calls'[c].tank
              IN calls'[c].pc = "lowLookup"
                     <=> FillAtMost(t.fillPercentage, t.refillThreshold, 1)]_vars

\* the call has finished its low-level check
LowStage == {"idle", "lowLookup", "lowSave"}
LeavesLowStage(c) == calls[c].pc \in LowStage /\ calls'[c].pc \notin LowStage

\* C14: with minPressure < maxPressure, a reading is taken to the pressure
\* lookup exactly when its pressure is below minPressure or above
\* maxPressure; the lookup, finding no Active alert of the type, builds a
\* low-pressure alert of severity high when the pressure is below
\* minPressure and a high-pressure alert of severity medium when it is above
\* maxPressure; the save stores that one alert and the call raises no
\* second pressure alert.
C14_PressureAlertByRange ==
    [][\A c \in Callers :
          LET p == calls'[c].reading.currentPressure
              lo == calls'[c].tank.minPressure
              hi == calls'[c].tank.maxPressure
              ty == IF p < lo THEN TANK_LOW_PRESSURE ELSE TANK_HIGH_PRESSURE
              sev == IF p < lo THEN "high" ELSE "medium"
          IN /\ LeavesLowStage(c)
                   => /\ lo < hi
                      /\ calls'[c].pc = "pressureLookup" <=> (p < lo \/ p > hi)
             /\ calls[c].pc = "pressureLookup" /\ calls'[c] # calls[c]
                   => IF \E i \in Stored : /\ alerts[i].tankId = calls[c].tank.id
                                           /\ alerts[i].type = ty
                                           /\ alerts[i].status = ACTIVE
                      THEN calls'[c].pc # "pressureSave"
                      ELSE /\ calls'[c].pc = "pressureSave"
                           /\ calls'[c].alert.type = ty
                           /\ calls'[c].alert.severity = sev
             /\ calls[c].pc = "pressureSave" /\ calls'[c] # calls[c]
                   => /\ Len(alerts') = Len(alerts) + 1
                      /\ alerts'[Len(alerts')].type = ty
                      /\ alerts'[Len(alerts')].severity = sev
                      /\ alerts'[Len(alerts')].sensorData.pressure = p
                      /\ calls'[c].pc \notin {"pressureLookup", "pressureSave"}]_vars

\* a low-pressure alert from the reading of 90 and a high-pressure alert
\* from the reading of 2500 are stored
C14_Witness ==
    /\ Len(alerts) = 2
    /\ alerts[1].type = TANK_LOW_PRESSURE
    /\ alerts[1].severity = "high"
    /\ alerts[1].sensorData.pressure < tank.minPressure
    /\ alerts[2].type = TANK_HIGH_PRESSURE
    /\ alerts[2].severity = "medium"
    /\ alerts[2].sensorData.pressure > tank.maxPressure

\* C15: a tank of capacity zero gets no reading evaluated: no call on it
\* ends well, no alert is created for it, and the fill percentage it stores
\* is never the NaN or Infinity of a division by zero.
C15_ZeroCapacityRejected ==
    tank.capacity = 0 =>
        /\ result # "ok"
        /\ alerts = <<>>
        /\ tank.fillPercentage.kind = "finite"

\* C16: a call saves a temperature alert only for a reading that carries a
\* temperature, whatever the stored tank and the stored alerts are.
C16_NoTemperatureNoAlert ==
    [][\A c \in Callers :
          calls[c].pc = "temperatureSave" /\ Len(alerts') = Len(alerts) + 1
              => calls[c].reading.temperature # NoTemp]_vars

\* entries of the action history written by op
Applications(a, op) ==
    Cardinality({k \in 1..Len(a.actionHistory) :
                    a.actionHistory[k].action =
                        IF op = "acknowledge" THEN "acknowledged" ELSE "resolved"})

\* C17: of two resolve calls (or two acknowledge calls) made on the same
\* alert, each a load-transition-save, at most one returns successfully, and
\* the stored alert shows one application: one action-history entry of the
\* operation and, for acknowledge, a count raised by one.
C17_OneOfTwoCallsSucceeds ==
    \A c1, c2 \in Callers :
        (/\ c1 # c2
         /\ calls[c1].pc = "returned" /\ calls[c2].pc = "returned"
         /\ calls[c1].id = calls[c2].id /\ calls[c1].op = calls[c2].op)
        => /\ ~(calls[c1].outcome = "ok" /\ calls[c2].outcome = "ok")
           /\ Applications(alerts[calls[c1].id], calls[c1].op) = 1
           /\ calls[c1].op = "acknowledge"
                 => alerts[calls[c1].id].acknowledgmentCount = 1

\* C18: addNotification can be applied to a stored alert in every status,
\* and applying it appends one entry to the notification history, raises
\* notificationCount by one and leaves every other field of the alert
\* (status, timestamps, escalationLevel, acknowledgmentCount, action and
\* escalation history) as it was.
C18_NotificationFrame ==
    [][\A i \in Stored :
          LET a == alerts[i]
              b == alerts'[i]
          IN /\ Len(a.notificationHistory) < MaxNotifications
                   => ENABLED RecordNotification(i, "email", "u1", "sent")
             /\ b.notificationHistory # a.notificationHistory
                   => /\ Len(b.notificationHistory) = Len(a.notificationHistory) + 1
                      /\ IsPrefix(a.notificationHistory, b.notificationHistory)
                      /\ b.notificationCount = a.notificationCount + 1
                      /\ b = [a EXCEPT
                                !.notificationHistory = b.notificationHistory,
                                !.notificationCount = b.notificationCount]
                      /\ result' = "ok"]_vars

\* a notification logged at time 1 on an alert resolved at time 0
C18_Witness ==
    \E i \in Stored :
        /\ alerts[i].status = RESOLVED
        /\ alerts[i].resolvedAt = 0
        /\ Len(alerts[i].actionHistory) = 1
        /\ alerts[i].notificationCount = 1
        /\ Len(alerts[i].notificationHistory) = 1
        /\ alerts[i].notificationHistory[1].sentAt = 1

\* what resolve leaves alone
ResolveKeeps(a, b) ==
    /\ b.acknowledgedBy = a.acknowledgedBy
    /\ b.acknowledgedAt = a.acknowledgedAt
    /\ b.escalatedTo = a.escalatedTo
    /\ b.escalatedAt = a.escalatedAt
    /\ b.escalationLevel = a.escalationLevel
    /\ b.acknowledgmentCount = a.acknowledgmentCount

\* C19 as stated: resolve(actor, notes) on an Active, Acknowledged or
\* Escalated alert sets status Resolved, resolvedBy, resolvedAt, and
\* resolutionNotes to the notes passed (null when none are passed), and
\* leaves the acknowledgment and escalation fields unchanged.
C19_ResolveStoresGivenNotes ==
    [][\A i \in Stored, notes \in NoteArgs :
          alerts[i].status \notin Terminal /\ Resolve(i, "u1", notes)
              => LET a == alerts[i]
                     b == alerts'[i]
                 IN /\ b.status = RESOLVED
                    /\ b.resolvedBy = "u1"
                    /\ b.resolvedAt = now
                    /\ b.resolutionNotes = IF notes = Undefined THEN Null ELSE notes
                    /\ ResolveKeeps(a, b)]_vars

\* C19: resolve(actor, notes) on an Active, Acknowledged or Escalated alert
\* sets status Resolved, resolvedBy, resolvedAt, and resolutionNotes to the
\* notes passed, or to null when they are omitted or the empty string, and
\* leaves the acknowledgment and escalation fields unchanged.
C19_ResolveStoresNotesOrNull ==
    [][\A i \in Stored, notes \in NoteArgs :
          alerts[i].status \notin Terminal /\ Resolve(i, "u1", notes)
              => LET a == alerts[i]
                     b == alerts'[i]
                 IN /\ b.status = RESOLVED
                    /\ b.resolvedBy = "u1"
                    /\ b.resolvedAt = now
                    /\ b.resolutionNotes =
                           IF notes \in {Undefined, ""} THEN Null ELSE notes
                    /\ ResolveKeeps(a, b)]_vars

\* an alert acknowledged by u2 and escalated at time 0, then resolved by u1
\* with notes at time 1
C19_Witness ==
    \E i \in Stored :
        /\ alerts[i].status = RESOLVED
        /\ alerts[i].resolvedBy = "u1"
        /\ alerts[i].resolvedAt = 1
        /\ alerts[i].resolutionNotes = "n1"
        /\ alerts[i].acknowledgedBy = "u2"
        /\ alerts[i].acknowledgedAt = 0
        /\ alerts[i].escalatedAt = 0
        /\ alerts[i].escalationLevel = 1
        /\ Len(alerts[i].actionHistory) = 3

\* C20: escalate sets status Escalated, escalatedTo and escalationReason and
\* appends one entry to the escalation history and one to the action
\* history; acknowledge, resolve, dismiss and addNotification leave the
\* escalation history as it is.
C20_EscalateFrame ==
    [][\A i \in Stored :
          LET a == alerts[i]
              b == alerts'[i]
          IN /\ Escalate(i, "u2", "r1")
                   => /\ b.status = ESCALATED
                      /\ b.escalatedTo = "u2"
                      /\ b.escalationReason = "r1"
                      /\ Len(b.escalationHistory) = Len(a.escalationHistory) + 1
                      /\ IsPrefix(a.escalationHistory, b.escalationHistory)
                      /\ b.escalationHistory[Len(b.escalationHistory)].escalatedTo = "u2"
                      /\ b.escalationHistory[Len(b.escalationHistory)].reason = "r1"
                      /\ Len(b.actionHistory) = Len(a.actionHistory) + 1
                      /\ IsPrefix(a.actionHistory, b.actionHistory)
                      /\ b.actionHistory[Len(b.actionHistory)].action = "escalated"
             /\ (\/ \E by \in Users, notes \in NoteArgs : Acknowledge(i, by, notes)
                 \/ \E notes \in NoteArgs : Resolve(i, "u1", notes)
                 \/ Dismiss(i, "u1", Undefined)
                 \/ RecordNotification(i, "email", "u1", "sent"))
                   => b.escalationHistory = a.escalationHistory]_vars

\* an alert acknowledged, then escalated, with a notification logged
C20_Witness ==
    \E i \in Stored :
        /\ alerts[i].status = ESCALATED
        /\ alerts[i].escalatedTo = "u2"
        /\ alerts[i].escalationReason = "r1"
        /\ Len(alerts[i].escalationHistory) = 1
        /\ Len(alerts[i].actionHistory) = 2
        /\ alerts[i].actionHistory[1].action = "acknowledged"
        /\ alerts[i].actionHistory[2].action = "escalated"
        /\ alerts[i].notificationCount = 1

\* ------------------------------------------------------------------ password reset request
\* C21: the outcome of a password-reset request does not tell whether the
\* e-mail address has a user: for an address without a user
\* requestPasswordReset returns without an error, changes no user record and
\* sends nothing, for an address with a user it returns without an error too,
\* and the forgot-password route answers success for every address.
C21_ResetRequestHidesExistence ==
    [][\A e \in Emails :
         /\ RequestPasswordReset(e) =>
               /\ result' = "returned"
               /\ users[e] = NoUser => users' = users /\ mail' = mail
         /\ ForgotPassword(e) => result' = "success"]_vars

\* the route has answered a request for an address that has no user
C21_Witness ==
    /\ result = "success"
    /\ users["new@sos.com"] = NoUser
    /\ users["admin@sos.com"].passwordResetToken = NoToken

\* ------------------------------------------------------------------ notification counter
\* C22: an alert created with notificationCount 0 and an empty notification
\* history has, in every reachable state, a notificationCount equal to the
\* number of entries of its notification history.
C22_CountIsHistoryLength ==
    \A i \in 1..Len(alerts) :
        alerts[i].notificationCount = Len(alerts[i].notificationHistory)

\* a notification was logged on an alert that has since been acknowledged
\* and escalated
C22_Witness ==
    \E i \in 1..Len(alerts) :
        /\ alerts[i].status = ESCALATED
        /\ alerts[i].acknowledgmentCount = 1
        /\ Len(alerts[i].notificationHistory) = 1
        /\ alerts[i].notificationHistory[1].sentAt = 0

ReadingsStep ==
    \/ calls' # calls
    \/ \E c \in Callers : TankNotFound(c, "T9", NoReading)

\* C24: updateTankReadings only ever adds alerts: no step of a call changes
\* a field of a stored alert or removes one, also when the reading has
\* cleared the condition of an Active alert.
C24_ReadingsOnlyAddAlerts ==
    [][ReadingsStep => IsPrefix(alerts, alerts')]_vars

\* a call has stored a reading of level 25, above the refill threshold,
\* while the low-level alert of an earlier reading is Active
C24_Witness ==
    /\ NoCallInFlight
    /\ result = "ok"
    /\ tank.currentLevel = 25
    /\ \E i \in 1..Len(alerts) :
           alerts[i].type = TANK_LOW_LEVEL /\ alerts[i].status = ACTIVE

\* C25: updateTankReadings is all-or-nothing: a call that reports failure
\* leaves the stored tank and the stored alerts as they were before it.  A
\* tank row that carries no reading has had no successful call, so with no
\* call in flight every call so far has failed and the store holds no alert.
C25_AllOrNothing ==
    NoCallInFlight /\ tank.lastReadingAt = NoTime => alerts = <<>>

\* ------------------------------------------------------------------ login
LoginErrors ==
    {"Invalid credentials", "Account is not active", "Please verify your email"}

\* the user of the address exists, is ACTIVE, has the password p and a
\* verified e-mail address
MayLogin(e, p) ==
    /\ users[e] # NoUser
    /\ users[e].status = ACTIVE
    /\ users[e].password = Hash(p)
    /\ users[e].emailVerified

\* C26: login returns tokens only when the user exists, its status is
\* ACTIVE, the password matches and emailVerified is true; otherwise it
\* raises an error, issues no token and leaves every user record, so
\* lastLoginAt and lastLoginIp, unchanged.
C26_LoginOnlyWhenEligible ==
    [][\A e \in Emails, p \in Passwords :
         Login(e, p, ClientIp) =>
             /\ result' = "tokens" => MayLogin(e, p)
             /\ ~MayLogin(e, p) => result' \in LoginErrors /\ users' = users]_vars

\* the admin logged in at hour 1; the login of the registered user, still
\* pending verification, was refused
C26_Witness ==
    /\ users["admin@sos.com"].lastLoginAt = 1
    /\ users["admin@sos.com"].lastLoginIp = ClientIp
    /\ users["new@sos.com"] # NoUser
    /\ users["new@sos.com"].lastLoginAt = NoTime
    /\ result = "Account is not active"

\* ------------------------------------------------------------------ e-mail verification
\* C27: a registered user can reach a state where login succeeds: confirming
\* the issued verification token before its expiry, by
\* confirmEmailVerification or by verifyEmail, leaves the user with
\* emailVerified true and status ACTIVE, and a login of a user with a
\* verified address and the right password succeeds.
C27_VerifiedUserCanLogin ==
    [][/\ \A k \in Tokens :
            LET user == userByVerificationToken(k)
            IN /\ ConfirmEmailVerification(k) \/ VerifyEmail(k)
               /\ user # NoUser
               /\ isEmailVerificationTokenValid(user, now)
               => /\ users'[user.email].emailVerified
                  /\ users'[user.email].status = ACTIVE
       /\ \A e \in Emails, p \in Passwords :
            /\ Login(e, p, ClientIp)
            /\ users[e] # NoUser
            /\ users[e].emailVerified
            /\ users[e].password = Hash(p)
            => result' = "tokens"]_vars

\* confirmEmailVerification has failed on a token that is valid
C27_ConfirmFails ==
    \E e \in Emails :
        /\ users[e] # NoUser
        /\ isEmailVerificationTokenValid(users[e], now)
        /\ result = "TypeError"

\* the login of a user whose address verifyEmail has verified is refused
C27_VerifiedLoginRefused ==
    \E e \in Emails :
        /\ users[e] # NoUser
        /\ users[e].emailVerified
        /\ users[e].status = PENDING_VERIFICATION
        /\ result = "Account is not active"

\* ------------------------------------------------------------------ password reset
\* the token k is stored for a user and its expiry has not passed
ResetTokenUsable(k) ==
    \E e \in Emails : /\ users[e] # NoUser
                      /\ users[e].passwordResetToken = k
                      /\ users[e].passwordResetExpires # NoTime
                      /\ users[e].passwordResetExpires >= now

\* C28: a password-reset token is single-use and time-limited: a reset
\* (resetPassword or confirmPasswordReset) succeeds only if its token is
\* stored for a user and the expiry has not passed; a successful reset
\* clears that user's token and expiry, so that no user holds the token
\* afterwards; and a reset with a token no user holds is rejected and
\* changes no user.
C28_ResetTokenSingleUse ==
    [][\A k \in Tokens :
         ResetPassword(k, "admin123") \/ ConfirmPasswordReset(k, "admin123") =>
             /\ result' = "returned" =>
                   /\ ResetTokenUsable(k)
                   /\ \A e \in Emails :
                          users'[e] # NoUser =>
                              /\ users'[e].passwordResetToken # k
                              /\ users[e].passwordResetToken = k =>
                                    /\ users'[e].passwordResetToken = NoToken
                                    /\ users'[e].passwordResetExpires = NoTime
             /\ ~ResetTokenUsable(k) =>
                   /\ result' = "Invalid or expired reset token"
                   /\ users' = users]_vars

\* the token mailed first was used for a reset at hour 1, and a second
\* reset was rejected
C28_Witness ==
    /\ Len(mail) >= 1
    /\ mail[1].kind = "reset"
    /\ users[mail[1].to].passwordChangedAt = 1
    /\ users[mail[1].to].password = Hash("admin123")
    /\ users[mail[1].to].passwordResetToken = NoToken
    /\ users[mail[1].to].passwordResetExpires = NoTime
    /\ result = "Invalid or expired reset token"

\* ------------------------------------------------------------------ who may change tanks
\* C29: a tank route that changes stored tank or alert state is reachable
\* only with the role ADMIN or OPERATOR (delete: ADMIN only): a request of
\* any other role, or without a valid token, to the readings, update or
\* delete route starts no call and changes neither the tank nor the alerts.
C29_MutationsNeedRole ==
    [][\A p \in Principals :
         /\ p \notin {ADMIN, OPERATOR} =>
               \A c \in Callers, r \in Readings, data \in TankUpdates :
                   PostReadings(c, p, "T1", r) \/ PutTank(p, TankId, data)
                       => UNCHANGED <<tank, alerts, calls>>
         /\ p # ADMIN =>
               (DeleteTank(p, TankId) => UNCHANGED <<tank, alerts, calls>>)]_vars

====
